---- MODULE Spec2Model ----
(***************************************************************************)
(* State-machine model of the pill-dispenser API in src/main.py: the       *)
(* Compartment table, the MedicineLog table, and one action per endpoint.  *)
(* Every endpoint is modelled as an operator from the committed database   *)
(* and the request to the committed database afterwards and the response;  *)
(* the actions apply these operators to the state.                         *)
(*                                                                         *)
(* A request runs in its own Session (get_session); a handler that raises  *)
(* before session.commit() leaves the database as it was.  An HTTPException*)
(* gives its status_code; any other exception gives status 500.            *)
(*                                                                         *)
(* Spec serves the requests one after the other.  SpecConcurrent serves    *)
(* two webhook requests at once, the SELECT and the commit of each being   *)
(* separate steps.                                                         *)
(***************************************************************************)
EXTENDS Integers, Sequences, FiniteSets

VARIABLES
    compartments,   \* rows of table Compartment, in rowid (id) order
    log,            \* rows of table MedicineLog, in rowid (id) order
    call,           \* the last request: endpoint, path parameter, body
    response,       \* the last response: status, body, message
    requests,       \* the number of requests served since startup
    sessions,       \* the Session of each request in flight: its position
                    \* in the handler, its body, the row it has loaded
    before          \* the Compartment table when the requests in flight
                    \* arrived

vars == <<compartments, log, call, response, requests, sessions, before>>

----------------------------------------------------------------------------
(* Bounds of the model *)

MaxRequests == 3    \* requests served in one run
MaxBatch == 2       \* events in one webhook batch, payloads in one bulk-create
MaxCount == 5       \* pills in the compartment that concurrent requests take from

----------------------------------------------------------------------------
(* Values *)

None == "None"                      \* Python's None, SQL NULL

ValidNumbers == {1, 2, 3}           \* the literal [1, 2, 3] of every handler

RECURSIVE SeqMax(_)
SeqMax(s) ==
    IF s = <<>> THEN 0
    ELSE LET m == SeqMax(Tail(s)) IN IF Head(s) > m THEN Head(s) ELSE m

Max(a, b) == IF a > b THEN a ELSE b

Ids(rows) == [i \in 1..Len(rows) |-> rows[i].id]

\* SQLite's rowid for a row inserted into a table whose "id INTEGER PRIMARY
\* KEY" has no AUTOINCREMENT: one more than the largest rowid in the table.
NextId(rows) == SeqMax(Ids(rows)) + 1

\* The fields of CompartmentBase with their defaults, for a payload that
\* supplies only the two required fields.
CompartmentBase(number, name) ==
    [compartment_number   |-> number,
     medicine_name        |-> name,
     number_of_medicines  |-> 0,
     to_be_repeated       |-> FALSE,
     morning_time         |-> None,
     afternoon_time       |-> None,
     evening_time         |-> None,
     time_if_not_repeated |-> None,
     taken                |-> FALSE,
     taken_at             |-> None,
     low_stock            |-> FALSE]

\* Compartment.model_validate(payload) followed by the INSERT: the payload's
\* fields, and the id the table assigns.
Compartment(payload, id) ==
    [id                   |-> id,
     compartment_number   |-> payload.compartment_number,
     medicine_name        |-> payload.medicine_name,
     number_of_medicines  |-> payload.number_of_medicines,
     to_be_repeated       |-> payload.to_be_repeated,
     morning_time         |-> payload.morning_time,
     afternoon_time       |-> payload.afternoon_time,
     evening_time         |-> payload.evening_time,
     time_if_not_repeated |-> payload.time_if_not_repeated,
     taken                |-> payload.taken,
     taken_at             |-> payload.taken_at,
     low_stock            |-> payload.low_stock]

\* A handler's outcome: the committed tables and the response.
Outcome(rows, entries, status, body, message) ==
    [compartments |-> rows, log |-> entries,
     status |-> status, body |-> body, message |-> message]

\* raise HTTPException(status_code, detail): nothing is committed.
Raise(rows, entries, status, detail) ==
    Outcome(rows, entries, status, <<>>, detail)

\* The position in the table of the row with this id (0 when there is none).
RowOf(rows, id) ==
    IF \E i \in 1..Len(rows) : rows[i].id = id
    THEN CHOOSE i \in 1..Len(rows) : rows[i].id = id
    ELSE 0

\* select(Compartment).where(Compartment.compartment_number == number)
ByNumber(rows, number) ==
    SelectSeq(rows, LAMBDA c : c.compartment_number = number)

----------------------------------------------------------------------------
(* POST /compartments/createcompartment *)

\* create_compartment without its third check: a repeated medicine that
\* carries time_if_not_repeated is stored.
create_compartment_unchecked_repeat(rows, entries, compartment) ==
    IF compartment.compartment_number \notin ValidNumbers
    THEN Raise(rows, entries, 400, "compartment_number must be 1, 2, or 3.")
    ELSE IF ~compartment.to_be_repeated /\ compartment.time_if_not_repeated = None
    THEN Raise(rows, entries, 400,
               "time_if_not_repeated is required if the medicine is not repeated.")
    ELSE LET db_compartment == Compartment(compartment, NextId(rows))
         IN Outcome(Append(rows, db_compartment), entries,
                    200, <<db_compartment>>, "")

create_compartment(rows, entries, compartment) ==
    IF compartment.compartment_number \notin ValidNumbers
    THEN Raise(rows, entries, 400, "compartment_number must be 1, 2, or 3.")
    ELSE IF ~compartment.to_be_repeated /\ compartment.time_if_not_repeated = None
    THEN Raise(rows, entries, 400,
               "time_if_not_repeated is required if the medicine is not repeated.")
    ELSE IF compartment.to_be_repeated /\ compartment.time_if_not_repeated # None
    THEN Raise(rows, entries, 400,
               "time_if_not_repeated should be None if the medicine is repeated.")
    ELSE LET db_compartment == Compartment(compartment, NextId(rows))
         IN Outcome(Append(rows, db_compartment), entries,
                    200, <<db_compartment>>, "")

----------------------------------------------------------------------------
(* GET /compartments/ *)

\* Query(100, le=100): a limit above 100 is refused by the framework (422).
\* The inputs of the model keep offset and limit non-negative.
get_compartments(rows, entries, offset, limit) ==
    IF limit > 100
    THEN Raise(rows, entries, 422, "limit: ensure this value is <= 100")
    ELSE Outcome(rows, entries, 200,
                 SubSeq(rows, offset + 1,
                        IF offset + limit < Len(rows) THEN offset + limit
                        ELSE Len(rows)),
                 "")

(* GET /compartments/{compartment_number} *)

get_compartments_by_number(rows, entries, compartment_number) ==
    IF compartment_number \notin ValidNumbers
    THEN Raise(rows, entries, 400, "compartment_number must be 1, 2, or 3.")
    ELSE Outcome(rows, entries, 200, ByNumber(rows, compartment_number), "")

----------------------------------------------------------------------------
(* POST /compartments/bulk-create *)

\* The loop of create_multiple_compartments over compartments[i..]: `added`
\* are the rows session.add()ed so far.  A raise leaves the loop before
\* session.commit(), so none of them is stored.
RECURSIVE BulkLoop(_, _, _, _)
BulkLoop(rows, entries, payloads, added) ==
    IF payloads = <<>>
    THEN Outcome(rows \o added, entries, 200, added, "")
    ELSE LET compartment == Head(payloads) IN
         IF compartment.compartment_number \notin ValidNumbers
         THEN Raise(rows, entries, 400, "Invalid compartment_number")
         ELSE IF ~compartment.to_be_repeated
                 /\ compartment.time_if_not_repeated = None
         THEN Raise(rows, entries, 400,
                    "time_if_not_repeated is required for non-repeated medicine")
         ELSE IF compartment.to_be_repeated
                 /\ compartment.time_if_not_repeated # None
         THEN Raise(rows, entries, 400,
                    "time_if_not_repeated must be None for repeated medicine")
         ELSE BulkLoop(rows, entries, Tail(payloads),
                       Append(added,
                              Compartment(compartment, NextId(rows \o added))))

create_multiple_compartments(rows, entries, payloads) ==
    BulkLoop(rows, entries, payloads, <<>>)

----------------------------------------------------------------------------
(* PATCH /compartments/updatecompartment/{compartment_id} *)

\* The fields CompartmentUpdate declares.  A request body is a function from
\* the field names it supplies to their values; a key that is no field of
\* CompartmentUpdate is dropped when the body is validated.
UpdateFields ==
    {"medicine_name", "number_of_medicines", "to_be_repeated", "morning_time",
     "afternoon_time", "evening_time", "time_if_not_repeated", "taken"}

CompartmentUpdate(body) ==
    [k \in (DOMAIN body) \cap UpdateFields |-> body[k]]

\* The columns of Compartment declared without Optional: NOT NULL.
NotNullColumns ==
    {"compartment_number", "medicine_name", "number_of_medicines",
     "to_be_repeated", "taken", "low_stock"}

\* A value of a request body whose field is Optional: JSON null, or a value.
Null == <<>>
Some(v) == <<v>>

\* for key, value in update_data.items(): setattr(compartment, key, value)
SetAttrs(compartment, update_data) ==
    [k \in DOMAIN compartment |->
        IF k \in DOMAIN update_data
        THEN IF update_data[k] = Null THEN None ELSE update_data[k][1]
        ELSE compartment[k]]

update_compartment(rows, entries, compartment_id, body) ==
    LET i == RowOf(rows, compartment_id)
        update_data == CompartmentUpdate(body)   \* model_dump(exclude_unset=True)
    IN  IF i = 0
        THEN Raise(rows, entries, 404, "Compartment not found")
        ELSE IF "compartment_number" \in DOMAIN update_data
                /\ update_data["compartment_number"] \notin ValidNumbers
        THEN Raise(rows, entries, 400, "compartment_number must be 1, 2, or 3.")
        ELSE IF \E k \in (DOMAIN update_data) \cap NotNullColumns :
                    update_data[k] = Null
        THEN \* session.commit() raises IntegrityError (NOT NULL): status 500
             Raise(rows, entries, 500, "Internal Server Error")
        ELSE LET compartment == SetAttrs(rows[i], update_data)
             IN Outcome([rows EXCEPT ![i] = compartment], entries,
                        200, <<compartment>>, "")

----------------------------------------------------------------------------
(* DELETE /compartments/{compartment_number}/{medicine_name} *)

\* delete_medicine_from_compartment that also deletes the compartment's
\* MedicineLog rows.
delete_medicine_with_log(rows, entries, compartment_number, medicine_name) ==
    IF compartment_number \notin ValidNumbers
    THEN Raise(rows, entries, 400, "compartment_number must be 1, 2, or 3.")
    ELSE LET Matches(c) == /\ c.compartment_number = compartment_number
                           /\ c.medicine_name = medicine_name
             found == SelectSeq(rows, Matches)
         IN IF found = <<>>
            THEN Raise(rows, entries, 404, "No medicine found in compartment")
            ELSE Outcome(SelectSeq(rows, LAMBDA c : ~Matches(c)),
                         SelectSeq(entries, LAMBDA l : ~Matches(l)),
                         200, <<>>, "All entries have been removed")

delete_medicine_from_compartment(rows, entries, compartment_number, medicine_name) ==
    IF compartment_number \notin ValidNumbers
    THEN Raise(rows, entries, 400, "compartment_number must be 1, 2, or 3.")
    ELSE LET Matches(c) == /\ c.compartment_number = compartment_number
                           /\ c.medicine_name = medicine_name
             found == SelectSeq(rows, Matches)
         IN IF found = <<>>
            THEN Raise(rows, entries, 404, "No medicine found in compartment")
            ELSE Outcome(SelectSeq(rows, LAMBDA c : ~Matches(c)), entries,
                         200, <<>>, "All entries have been removed")

(* DELETE /compartments/ *)

\* select(Compartment) builds a Select statement, and a Select has no
\* delete() method (delete() is a method of a table, or the function the
\* module imports from sqlmodel and never calls).  Evaluating
\* select(Compartment).delete() raises AttributeError before anything is
\* executed: the request ends with status 500 and no row is removed.
delete_all_compartments(rows, entries) ==
    Raise(rows, entries, 500, "Internal Server Error")

----------------------------------------------------------------------------
(* PATCH /compartments/{compartment_number}/mark-taken *)

\* mark_medicine_taken that marks every record of the compartment, not the
\* first one only.
mark_medicine_taken_all(rows, entries, compartment_number) ==
    IF compartment_number \notin ValidNumbers
    THEN Raise(rows, entries, 400, "compartment_number must be 1, 2, or 3.")
    ELSE LET found == ByNumber(rows, compartment_number) IN
         IF found = <<>>
         THEN Raise(rows, entries, 404, "No medicine found in compartment")
         ELSE LET marked == [Head(found) EXCEPT !.taken = TRUE]
              IN Outcome([i \in 1..Len(rows) |->
                             IF rows[i].compartment_number = compartment_number
                             THEN [rows[i] EXCEPT !.taken = TRUE]
                             ELSE rows[i]],
                         entries, 200, <<marked>>, "")

mark_medicine_taken(rows, entries, compartment_number) ==
    IF compartment_number \notin ValidNumbers
    THEN Raise(rows, entries, 400, "compartment_number must be 1, 2, or 3.")
    ELSE LET found == ByNumber(rows, compartment_number) IN
         IF found = <<>>                                \* .first() is None
         THEN Raise(rows, entries, 404, "No medicine found in compartment")
         ELSE LET compartment == Head(found)            \* .first()
                  marked == [compartment EXCEPT !.taken = TRUE]
                  i == RowOf(rows, compartment.id)
              IN Outcome([rows EXCEPT ![i] = marked], entries,
                         200, <<marked>>, "")

(* PATCH /compartments/{compartment_number}/unmark-taken *)

unmark_medicine_taken(rows, entries, compartment_number) ==
    LET found == ByNumber(rows, compartment_number) IN
    IF found = <<>>                                     \* .first() is None
    THEN Raise(rows, entries, 404, "No medicine found in this compartment")
    ELSE LET compartment == Head(found)                 \* .first()
             unmarked == [compartment EXCEPT !.taken = FALSE,
                                             !.taken_at = None]
             i == RowOf(rows, compartment.id)
         IN Outcome([rows EXCEPT ![i] = unmarked], entries,
                    200, <<unmarked>>, "")

(* GET /compartments/{compartment_number}/taken *)

get_taken_medicines(rows, entries, compartment_number) ==
    IF compartment_number \notin ValidNumbers
    THEN Raise(rows, entries, 400, "compartment_number must be 1, 2, or 3.")
    ELSE Outcome(rows, entries, 200,
                 SelectSeq(rows, LAMBDA c :
                     c.compartment_number = compartment_number /\ c.taken),
                 "")

(* GET /compartments/{compartment_number}/pending *)

get_pending_medicines(rows, entries, compartment_number) ==
    IF compartment_number \notin ValidNumbers
    THEN Raise(rows, entries, 400, "compartment_number must be 1, 2, or 3.")
    ELSE Outcome(rows, entries, 200,
                 SelectSeq(rows, LAMBDA c :
                     c.compartment_number = compartment_number /\ ~c.taken),
                 "")

----------------------------------------------------------------------------
(* POST /adafruit-taken-webhook/ *)

\* Text the handler transforms (feed_name, value) is a sequence of
\* one-character strings.
Str_comp1_taken == <<"c","o","m","p","1","-","t","a","k","e","n">>
Str_comp2_taken == <<"c","o","m","p","2","-","t","a","k","e","n">>
Str_comp3_taken == <<"c","o","m","p","3","-","t","a","k","e","n">>

\* str.lower(), on the letters the feed names are written with.
LowerChar(ch) ==
    CASE ch = "C" -> "c" [] ch = "O" -> "o" [] ch = "M" -> "m"
      [] ch = "P" -> "p" [] ch = "T" -> "t" [] ch = "A" -> "a"
      [] ch = "K" -> "k" [] ch = "E" -> "e" [] ch = "N" -> "n"
      [] OTHER -> ch

Lower(str) == [i \in 1..Len(str) |-> LowerChar(str[i])]

\* str.strip(): leading and trailing whitespace removed.
Whitespace == {" ", "\t", "\n", "\r"}

RECURSIVE LStrip(_)
LStrip(str) ==
    IF str # <<>> /\ Head(str) \in Whitespace THEN LStrip(Tail(str)) ELSE str

RECURSIVE RStrip(_)
RStrip(str) ==
    IF str # <<>> /\ str[Len(str)] \in Whitespace
    THEN RStrip(SubSeq(str, 1, Len(str) - 1))
    ELSE str

Strip(str) == RStrip(LStrip(str))

\* feed_map.get(feed): the compartment number, or 0 for None (both falsy).
feed_map(feed) ==
    CASE feed = Str_comp1_taken -> 1
      [] feed = Str_comp2_taken -> 2
      [] feed = Str_comp3_taken -> 3
      [] OTHER -> 0

\* dateutil's parser.isoparse on the created_at strings of the model: the
\* datetime of an ISO-8601 string, written as str(datetime) writes it, or
\* None where isoparse raises ValueError.
isoparse(created_at) ==
    CASE created_at = "2024-01-01T09:00:00Z" -> "2024-01-01 09:00:00+00:00"
      [] created_at = "2024-01-02T21:30:00Z" -> "2024-01-02 21:30:00+00:00"
      [] created_at = "2024-01-03"           -> "2024-01-03 00:00:00"
      [] OTHER -> None

\* MedicineLog(...) followed by the INSERT.
MedicineLog(id, compartment_number, medicine_name, taken_at, action) ==
    [id |-> id, compartment_number |-> compartment_number,
     medicine_name |-> medicine_name, taken_at |-> taken_at,
     action |-> action]

\* TakeOne without  max(comp.number_of_medicines, 0).
TakeOneUnclamped(rows, entries, entry, comp_num, comp) ==
    LET count == comp.number_of_medicines - 1
        taken_at == isoparse(entry.created_at)
        updated == [comp EXCEPT !.number_of_medicines = count,
                                !.taken = TRUE,
                                !.taken_at = taken_at,
                                !.low_stock = (count < 4)]
        entry_log == MedicineLog(NextId(entries), comp.compartment_number,
                                 comp.medicine_name, taken_at, "taken")
        i == RowOf(rows, comp.id)
    IN  IF taken_at = None
        THEN Raise(rows, entries, 500, "Internal Server Error")
        ELSE Outcome([rows EXCEPT ![i] = updated], Append(entries, entry_log),
                     200,
                     <<[comp_num |-> comp_num,
                        new_count |-> updated.number_of_medicines,
                        low_stock |-> updated.low_stock]>>,
                     "Compartment updated")

\* The body of the branch  if entry.value.strip() == "1":  for the row comp.
TakeOne(rows, entries, entry, comp_num, comp) ==
    LET decremented == comp.number_of_medicines - 1
        count == Max(decremented, 0)                     \* prevent negatives
        taken_at == isoparse(entry.created_at)
        updated == [comp EXCEPT !.number_of_medicines = count,
                                !.taken = TRUE,
                                !.taken_at = taken_at,
                                !.low_stock = (count < 4)]
        entry_log == MedicineLog(NextId(entries), comp.compartment_number,
                                 comp.medicine_name, taken_at, "taken")
        i == RowOf(rows, comp.id)
    IN  IF taken_at = None
        THEN \* isoparse raises ValueError: status 500, nothing committed
             Raise(rows, entries, 500, "Internal Server Error")
        ELSE Outcome([rows EXCEPT ![i] = updated], Append(entries, entry_log),
                     200,
                     <<[comp_num |-> comp_num,
                        new_count |-> updated.number_of_medicines,
                        low_stock |-> updated.low_stock]>>,
                     "Compartment updated")

\* The loop as it would be with  return  in place of  continue  where the
\* compartment holds no record.
RECURSIVE WebhookLoopReturnsOnMissing(_, _, _)
WebhookLoopReturnsOnMissing(rows, entries, data) ==
    IF data = <<>>
    THEN Outcome(rows, entries, 200, <<>>, "No valid update processed")
    ELSE LET entry == Head(data)
             feed == Lower(entry.feed_name)
             comp_num == feed_map(feed)
             found == ByNumber(rows, comp_num)
         IN IF comp_num = 0
            THEN WebhookLoopReturnsOnMissing(rows, entries, Tail(data))
            ELSE IF found = <<>>
            THEN Outcome(rows, entries, 200, <<>>, "No medicine found")
            ELSE IF Strip(entry.value) = <<"1">>
            THEN TakeOne(rows, entries, entry, comp_num, Head(found))
            ELSE WebhookLoopReturnsOnMissing(rows, entries, Tail(data))

\* The loop  for entry in data  over data[i..].
RECURSIVE WebhookLoop(_, _, _)
WebhookLoop(rows, entries, data) ==
    IF data = <<>>
    THEN Outcome(rows, entries, 200, <<>>, "No valid update processed")
    ELSE LET entry == Head(data)
             feed == Lower(entry.feed_name)
             comp_num == feed_map(feed)
             found == ByNumber(rows, comp_num)
         IN IF comp_num = 0
            THEN WebhookLoop(rows, entries, Tail(data))     \* unknown feed
            ELSE IF found = <<>>                            \* .first() is None
            THEN WebhookLoop(rows, entries, Tail(data))
            ELSE IF Strip(entry.value) = <<"1">>
            THEN TakeOne(rows, entries, entry, comp_num, Head(found))
            ELSE WebhookLoop(rows, entries, Tail(data))

pill_taken_webhook(rows, entries, data) == WebhookLoop(rows, entries, data)

----------------------------------------------------------------------------
(* Requests the model sends *)

Names == {"Paracetamol", "Ibuprofen"}

\* Path parameters {compartment_number}: two of the compartments and a
\* number that is none.
PathNumbers == {0, 1, 2}

\* A repeated medicine with the default count and flags.
Repeated(number, name) ==
    [CompartmentBase(number, name) EXCEPT !.to_be_repeated = TRUE]

\* A medicine taken once, at noon, with a count.
Once(number, name, count) ==
    [CompartmentBase(number, name) EXCEPT !.number_of_medicines = count,
                                          !.time_if_not_repeated = "12:00:00"]

CreateInputs ==
    {Repeated(n, "Paracetamol") : n \in {0, 1, 2}}
    \cup {Once(1, "Ibuprofen", -1), Once(2, "Ibuprofen", 5)}
    \cup {CompartmentBase(1, "Paracetamol"),
          [Repeated(2, "Ibuprofen") EXCEPT !.time_if_not_repeated = "12:00:00"]}

\* Sequences over S of length 0..n.
SeqsUpTo(S, n) == UNION {[1..k -> S] : k \in 0..n}

BulkInputs == SeqsUpTo({Once(2, "Ibuprofen", 5), Repeated(4, "Ibuprofen")},
                       MaxBatch)

UpdateInputs ==
    { [to_be_repeated |-> Some(TRUE)],
      [time_if_not_repeated |-> Null],
      [number_of_medicines |-> Some(2), compartment_number |-> Some(9)],
      [number_of_medicines |-> Null],
      [taken |-> Some(FALSE)] }

Event(feed_name, value, created_at) ==
    [feed_name |-> feed_name, value |-> value, created_at |-> created_at]

\* One event that must be lower-cased and stripped to be applied, one that
\* qualifies and whose created_at is no timestamp, one whose value is not
\* "1", one of a feed that is not in the mapping.
EventInputs ==
    { Event(<<"C","o","m","p","1","-","T","A","K","E","N">>, <<" ","1","\n">>,
            "2024-01-01T09:00:00Z"),
      Event(Str_comp2_taken, <<"1">>, "yesterday"),
      Event(Str_comp1_taken, <<"1","0">>, "2024-01-02T21:30:00Z"),
      Event(<<"c","o","m","p","1">>, <<"1">>, "2024-01-03") }

\* The batches of distinct events.
BatchInputs ==
    {data \in SeqsUpTo(EventInputs, MaxBatch) :
        \A i, j \in 1..Len(data) : i # j => data[i] # data[j]}

----------------------------------------------------------------------------
(* The state machine *)

\* The run may serve another request.
Open == requests < MaxRequests

Apply(op, n, arg, out) ==
    /\ requests' = requests + 1
    /\ compartments' = out.compartments
    /\ log' = out.log
    /\ call' = [op |-> op, n |-> n, arg |-> arg]
    /\ response' = [status |-> out.status, body |-> out.body,
                    message |-> out.message]
    /\ UNCHANGED <<sessions, before>>

CreateCompartment ==
    /\ Open
    /\ \E compartment \in CreateInputs :
           Apply("create_compartment", compartment.compartment_number, compartment,
                 create_compartment(compartments, log, compartment))

GetCompartments ==
    /\ Open
    /\ \E offset \in {0, 1}, limit \in {100, 101} :
           Apply("get_compartments", limit, offset,
                 get_compartments(compartments, log, offset, limit))

GetCompartmentsByNumber ==
    /\ Open
    /\ \E n \in PathNumbers :
           Apply("get_compartments_by_number", n, <<>>,
                 get_compartments_by_number(compartments, log, n))

CreateMultipleCompartments ==
    /\ Open
    /\ \E payloads \in BulkInputs :
           Apply("create_multiple_compartments", Len(payloads), payloads,
                 create_multiple_compartments(compartments, log, payloads))

UpdateCompartment ==
    /\ Open
    /\ \E compartment_id \in {1, 2, 9}, body \in UpdateInputs :
           Apply("update_compartment", compartment_id, body,
                 update_compartment(compartments, log, compartment_id, body))

DeleteMedicineFromCompartment ==
    /\ Open
    /\ \E n \in PathNumbers, medicine_name \in Names :
           Apply("delete_medicine_from_compartment", n, medicine_name,
                 delete_medicine_from_compartment(compartments, log, n,
                                                  medicine_name))

DeleteAllCompartments ==
    /\ Open
    /\ Apply("delete_all_compartments", 0, <<>>,
             delete_all_compartments(compartments, log))

MarkMedicineTaken ==
    /\ Open
    /\ \E n \in PathNumbers :
           Apply("mark_medicine_taken", n, <<>>,
                 mark_medicine_taken(compartments, log, n))

UnmarkMedicineTaken ==
    /\ Open
    /\ \E n \in PathNumbers :
           Apply("unmark_medicine_taken", n, <<>>,
                 unmark_medicine_taken(compartments, log, n))

GetTakenMedicines ==
    /\ Open
    /\ \E n \in PathNumbers :
           Apply("get_taken_medicines", n, <<>>,
                 get_taken_medicines(compartments, log, n))

GetPendingMedicines ==
    /\ Open
    /\ \E n \in PathNumbers :
           Apply("get_pending_medicines", n, <<>>,
                 get_pending_medicines(compartments, log, n))

PillTakenWebhook ==
    /\ Open
    /\ \E data \in BatchInputs :
           Apply("pill_taken_webhook", Len(data), data,
                 pill_taken_webhook(compartments, log, data))

Init ==
    /\ compartments = <<>>
    /\ log = <<>>
    /\ call = [op |-> "startup", n |-> 0, arg |-> <<>>]
    /\ response = [status |-> 200, body |-> <<>>, message |-> ""]
    /\ requests = 0
    /\ sessions = <<>>
    /\ before = <<>>

Next ==
    \/ CreateCompartment
    \/ GetCompartments
    \/ GetCompartmentsByNumber
    \/ CreateMultipleCompartments
    \/ UpdateCompartment
    \/ DeleteMedicineFromCompartment
    \/ DeleteAllCompartments
    \/ MarkMedicineTaken
    \/ UnmarkMedicineTaken
    \/ GetTakenMedicines
    \/ GetPendingMedicines
    \/ PillTakenWebhook

Spec == Init /\ [][Next]_vars

----------------------------------------------------------------------------
(* Two webhook requests served at the same time *)

\* The endpoints are plain  def  functions, which FastAPI runs on the threads
\* of a pool; the engine is shared by the threads (check_same_thread is
\* False) and get_session gives each request a Session of its own.  A
\* handler reads with a SELECT, changes the loaded object in memory, and
\* writes when session.commit() flushes; no lock, no version column and no
\* UPDATE relative to the stored value ties the two together, and the
\* driver opens the transaction at the first write, not at the SELECT.
\* SQLite serialises the commits, so a commit is one step; between the
\* SELECT of a request and its commit the other request may take steps.
Workers == {1, 2}

\* The bodies of the concurrent requests: one event each, for compartment 1.
ConcurrentEvents ==
    { Event(<<"C","o","m","p","1","-","T","A","K","E","N">>, <<" ","1","\n">>,
            "2024-01-01T09:00:00Z"),
      Event(Str_comp1_taken, <<"1">>, "2024-01-02T21:30:00Z"),
      Event(Str_comp1_taken, <<"1","0">>, "2024-01-02T21:30:00Z") }

\* The stores the requests arrive at: compartment 1 holds one medicine with
\* some count, compartment 2 another.
ConcurrentStores ==
    { << Compartment(Once(1, "Ibuprofen", c), 1),
         Compartment(Repeated(2, "Paracetamol"), 2) >> : c \in 0..MaxCount }

\* The UPDATE that the flush emits sets the columns whose value on the
\* object differs from the value loaded, and leaves the others as stored.
Flush(stored, loaded, changed) ==
    [k \in DOMAIN stored |->
        IF changed[k] # loaded[k] THEN changed[k] ELSE stored[k]]

\* The request of worker w ends with the outcome out.
Finish(w, out) ==
    /\ requests' = requests + 1
    /\ compartments' = out.compartments
    /\ log' = out.log
    /\ call' = [op |-> "pill_taken_webhook", n |-> w, arg |-> sessions[w].data]
    /\ response' = [status |-> out.status, body |-> out.body,
                    message |-> out.message]
    /\ sessions' = [sessions EXCEPT ![w].pc = "done"]
    /\ UNCHANGED before

\* Lines 390-408: the handler of worker w maps the feed, runs the SELECT and
\* checks the value.  With an event that is not applied the loop ends and
\* the request returns; otherwise the row read stays loaded in the Session.
SelectCompartment ==
    \E w \in Workers :
        /\ sessions[w].pc = "select"
        /\ LET entry == sessions[w].data[1]
               comp_num == feed_map(Lower(entry.feed_name))
               found == ByNumber(compartments, comp_num)
           IN  IF comp_num = 0 \/ found = <<>> \/ Strip(entry.value) # <<"1">>
               THEN Finish(w, pill_taken_webhook(compartments, log, sessions[w].data))
               ELSE /\ sessions' = [sessions EXCEPT ![w].pc = "commit",
                                                    ![w].comp = <<Head(found)>>]
                    /\ UNCHANGED <<compartments, log, call, response, requests,
                                   before>>

\* Lines 410-435: the handler of worker w changes the loaded object, adds
\* the log entry, and commits; refresh reads the row back for the response.
CommitSession ==
    \E w \in Workers :
        /\ sessions[w].pc = "commit"
        /\ LET entry == sessions[w].data[1]
               comp == sessions[w].comp[1]
               comp_num == feed_map(Lower(entry.feed_name))
               out == TakeOne(<<comp>>, log, entry, comp_num, comp)
               i == RowOf(compartments, comp.id)
           IN  IF out.status # 200 \/ i = 0
               THEN Finish(w, Raise(compartments, log, 500, "Internal Server Error"))
               ELSE LET row == Flush(compartments[i], comp, out.compartments[1])
                    IN Finish(w, Outcome([compartments EXCEPT ![i] = row],
                                         out.log, 200,
                                         <<[comp_num |-> comp_num,
                                            new_count |-> row.number_of_medicines,
                                            low_stock |-> row.low_stock]>>,
                                         out.message))

InitConcurrent ==
    /\ compartments \in ConcurrentStores
    /\ log = <<>>
    /\ call = [op |-> "startup", n |-> 0, arg |-> <<>>]
    /\ response = [status |-> 200, body |-> <<>>, message |-> ""]
    /\ requests = 0
    /\ sessions \in [Workers -> {[pc |-> "select", data |-> <<e>>, comp |-> <<>>] :
                                    e \in ConcurrentEvents}]
    /\ before = compartments

NextConcurrent ==
    \/ SelectCompartment
    \/ CommitSession

SpecConcurrent == InitConcurrent /\ [][NextConcurrent]_vars

----------------------------------------------------------------------------
(* Vocabulary of the properties *)

Succeeded == response.status = 200

\* The endpoints that take a compartment number, as call.n.
NumberOps ==
    {"create_compartment", "get_compartments_by_number",
     "delete_medicine_from_compartment", "mark_medicine_taken",
     "unmark_medicine_taken", "get_taken_medicines", "get_pending_medicines"}

\* The repeat-schedule invariant of a record or payload.
RepeatScheduleOk(c) ==
    (c.to_be_repeated = FALSE) <=> (c.time_if_not_repeated # None)

\* Every field of a payload, as stored in record c.
SameFields(c, payload) ==
    \A k \in DOMAIN payload : c[k] = payload[k]

IdsOf(rows) == {rows[i].id : i \in 1..Len(rows)}

\* An event that reconciliation is to apply against the rows: its lower-cased
\* feed name is in the mapping, its compartment has a stored record and its
\* trimmed value is "1".
Qualifies(rows, e) ==
    LET n == feed_map(Lower(e.feed_name))
    IN  /\ n \in ValidNumbers
        /\ \E i \in 1..Len(rows) : rows[i].compartment_number = n
        /\ Strip(e.value) = <<"1">>

\* The position in the batch of the first qualifying event, 0 if there is none.
FirstQualifying(rows, data) ==
    IF \E k \in 1..Len(data) : Qualifies(rows, data[k])
    THEN CHOOSE k \in 1..Len(data) :
            /\ Qualifies(rows, data[k])
            /\ \A j \in 1..(k - 1) : ~Qualifies(rows, data[j])
    ELSE 0

\* The position in the table of the first record numbered n.
FirstRecord(rows, n) ==
    CHOOSE i \in 1..Len(rows) :
        /\ rows[i].compartment_number = n
        /\ \A j \in 1..(i - 1) : rows[j].compartment_number # n

\* What the claims expect of applying event e, stamped at time t: the rows ...
ExpectedRows(rows, e, t) ==
    LET i == FirstRecord(rows, feed_map(Lower(e.feed_name)))
        c == rows[i].number_of_medicines
        left == IF c - 1 > 0 THEN c - 1 ELSE 0
    IN  [rows EXCEPT ![i] = [@ EXCEPT !.number_of_medicines = left,
                                      !.taken = TRUE,
                                      !.taken_at = t,
                                      !.low_stock = (left < 4)]]

\* ... and the log.
ExpectedLog(rows, entries, e, t) ==
    LET i == FirstRecord(rows, feed_map(Lower(e.feed_name)))
    IN  Append(entries,
               [id |-> Len(entries) + 1,
                compartment_number |-> rows[i].compartment_number,
                medicine_name |-> rows[i].medicine_name,
                taken_at |-> t,
                action |-> "taken"])

IsPrefix(s, t) == Len(s) <= Len(t) /\ SubSeq(t, 1, Len(s)) = s

----------------------------------------------------------------------------
(* C1 *)

\* C1: for every compartment number n not in {1,2,3}, each operation that
\* takes a compartment number fails with InvalidArgument and leaves the
\* compartment store unchanged.
C1_InvalidNumberRejected ==
    [][ (call'.op \in NumberOps /\ call'.n \notin ValidNumbers)
            => (response'.status = 400 /\ compartments' = compartments) ]_vars

----------------------------------------------------------------------------
(* C2 *)

\* C2: Create fails with InvalidArgument and persists no record when the
\* payload breaks the repeat-schedule rule; every other payload whose
\* compartment_number is in {1,2,3} persists exactly one new record with a
\* fresh id, and the existing records are unchanged.
C2_CreateValidatesAndAppends ==
    [][ call'.op = "create_compartment" =>
          LET payload == call'.arg IN
          IF ~RepeatScheduleOk(payload)
          THEN response'.status = 400 /\ compartments' = compartments
          ELSE payload.compartment_number \in ValidNumbers =>
                 /\ response'.status = 200
                 /\ Len(compartments') = Len(compartments) + 1
                 /\ SubSeq(compartments', 1, Len(compartments)) = compartments
                 /\ LET new == compartments'[Len(compartments')]
                    IN  /\ new.id \notin IdsOf(compartments)
                        /\ SameFields(new, payload)
                        /\ response'.body = <<new>> ]_vars

\* A create that succeeded on a table that held a record already.
C2_Witness ==
    /\ call.op = "create_compartment"
    /\ Succeeded
    /\ Len(compartments) >= 2
    /\ response.body = <<compartments[Len(compartments)]>>

----------------------------------------------------------------------------
(* C3 *)

\* C3: in every reachable state every stored compartment satisfies the
\* repeat-schedule invariant (to_be_repeated = false iff
\* time_if_not_repeated is present).
C3_RepeatScheduleInvariant ==
    \A i \in 1..Len(compartments) : RepeatScheduleOk(compartments[i])

----------------------------------------------------------------------------
(* C4 *)

\* C4: in every reachable state every stored compartment has
\* low_stock = (number_of_medicines < 4).
C4_LowStockDerived ==
    \A i \in 1..Len(compartments) :
        compartments[i].low_stock = (compartments[i].number_of_medicines < 4)

----------------------------------------------------------------------------
(* C5 *)

\* C5: in every reachable state every stored compartment has
\* number_of_medicines >= 0.
C5_CountNeverNegative ==
    \A i \in 1..Len(compartments) : compartments[i].number_of_medicines >= 0

----------------------------------------------------------------------------
(* C6 *)

\* C6: when webhook reconciliation applies a value-"1" event for compartment
\* n whose first stored record has count c, that record afterwards has
\* number_of_medicines = max(c - 1, 0), taken = true, taken_at = the event's
\* timestamp and low_stock = (max(c - 1, 0) < 4); one MedicineLog entry is
\* appended with action "taken", the record's compartment number and
\* medicine name and the same timestamp; every other record is unchanged.
C6_WebhookAppliesTakenEvent ==
    [][ call'.op = "pill_taken_webhook" =>
          LET data == call'.arg
              q == FirstQualifying(compartments, data)
          IN  (q # 0 /\ isoparse(data[q].created_at) # None) =>
                 LET t == isoparse(data[q].created_at) IN
                 /\ response'.status = 200
                 /\ compartments' = ExpectedRows(compartments, data[q], t)
                 /\ log' = ExpectedLog(compartments, log, data[q], t) ]_vars

\* An applied event that met a count of 0 (it stays 0, low_stock true),
\* with another record in the table.
C6_Witness ==
    /\ call.op = "pill_taken_webhook"
    /\ response.message = "Compartment updated"
    /\ response.body[1].new_count = 0
    /\ response.body[1].low_stock
    /\ Len(compartments) >= 2
    /\ Len(log) >= 1

----------------------------------------------------------------------------
(* C7 *)

\* C7: one webhook call applies at most one event, the first in batch order
\* that qualifies (mapped feed, stored compartment, trimmed value "1");
\* the events before and after it change neither compartments nor log, so at
\* most one log entry is appended; if no event qualifies, compartments and
\* log are unchanged and the no-op result is returned.
C7_WebhookAppliesFirstQualifyingOnly ==
    [][ call'.op = "pill_taken_webhook" =>
          LET data == call'.arg
              q == FirstQualifying(compartments, data)
          IN  /\ Len(log') <= Len(log) + 1
              /\ q = 0 =>
                    /\ compartments' = compartments
                    /\ log' = log
                    /\ response'.status = 200
                    /\ response'.message = "No valid update processed"
              /\ q # 0 =>
                    \/ compartments' = compartments /\ log' = log
                    \/ /\ Len(log') = Len(log) + 1
                       /\ LET t == log'[Len(log')].taken_at IN
                          /\ compartments' = ExpectedRows(compartments, data[q], t)
                          /\ log' = ExpectedLog(compartments, log, data[q], t) ]_vars

\* A batch of two events, for compartments 1 and 2 that both hold a record:
\* only the first was applied.
C7_Witness ==
    /\ call.op = "pill_taken_webhook"
    /\ Len(call.arg) = 2
    /\ Qualifies(compartments, call.arg[1])
    /\ Qualifies(compartments, call.arg[2])
    /\ call.arg[1].feed_name # call.arg[2].feed_name
    /\ response.message = "Compartment updated"
    /\ Len(log) = 1

----------------------------------------------------------------------------
(* C8 *)

\* C8: webhook reconciliation never returns an error: a qualifying event
\* whose created_at cannot be parsed still succeeds and is applied.
C8_WebhookNeverErrors ==
    call.op = "pill_taken_webhook" => response.status = 200

----------------------------------------------------------------------------
(* C9 *)

\* C9: the MedicineLog is append-only: no operation changes or removes an
\* entry, only webhook reconciliation adds entries, and it adds exactly one
\* per call that applied an update (so the number of entries equals the
\* number of such calls).
C9_LogAppendOnly ==
    [][ /\ IsPrefix(log, log')
        /\ Len(log') - Len(log) =
              IF /\ call'.op = "pill_taken_webhook"
                 /\ response'.status = 200
                 /\ response'.message = "Compartment updated"
              THEN 1 ELSE 0 ]_vars

\* The log entry of a compartment outlives the deletion of its record.
C9_Witness ==
    /\ call.op = "delete_medicine_from_compartment"
    /\ Succeeded
    /\ Len(log) >= 1
    /\ \A i \in 1..Len(compartments) :
          compartments[i].compartment_number # log[1].compartment_number

----------------------------------------------------------------------------
(* C10 *)

\* C10: DeleteAll succeeds from any store state and leaves zero compartment
\* records, while the MedicineLog is unchanged.
C10_DeleteAllEmptiesStore ==
    [][ call'.op = "delete_all_compartments"
            => (response'.status = 200 /\ compartments' = <<>> /\ log' = log) ]_vars

----------------------------------------------------------------------------
(* C11 *)

\* The value a payload field asks for: null, or the value supplied.
Supplied(body, k) == IF body[k] = Null THEN None ELSE body[k][1]

\* The record that Update(id, body) is to leave in place of record c: the
\* fields of the payload hold the supplied values, every other field of c
\* (id and compartment_number among them) is as it was.
Updated(c, body) ==
    [k \in DOMAIN c |->
        IF k \in (DOMAIN body) \ {"id", "compartment_number"}
        THEN Supplied(body, k)
        ELSE c[k]]

\* C11: Update(id, partialPayload) on an existing id changes exactly the
\* fields explicitly supplied in the payload (a field supplied as explicit
\* null is set to null) and leaves every field absent from the payload, the
\* record's id and compartment_number, and all other records unchanged; on an
\* id that does not exist it fails with NotFound and the store is unchanged.
C11_UpdateAppliesSuppliedFields ==
    [][ call'.op = "update_compartment" =>
          LET i == RowOf(compartments, call'.n) IN
          IF i = 0
          THEN /\ response'.status = 404
               /\ compartments' = compartments
               /\ log' = log
          ELSE /\ response'.status = 200
               /\ compartments' =
                     [compartments EXCEPT ![i] = Updated(compartments[i], call'.arg)]
               /\ log' = log ]_vars

----------------------------------------------------------------------------
(* C12 *)

\* The positions of the records numbered n, in storage order.
PositionsOf(rows, n) == {i \in 1..Len(rows) : rows[i].compartment_number = n}

\* C12: MarkTaken(n) for n in {1,2,3} with at least one record numbered n
\* sets taken = true on the first such record in storage order and changes
\* nothing else: that record's taken_at, number_of_medicines and low_stock,
\* every other record (including other records with the same number) and the
\* log are unchanged; with no record numbered n it fails with NotFound and
\* the store is unchanged.
C12_MarkTakenSetsFlagOnly ==
    [][ (call'.op = "mark_medicine_taken" /\ call'.n \in {1, 2, 3}) =>
          LET at == PositionsOf(compartments, call'.n) IN
          IF at = {}
          THEN /\ response'.status = 404
               /\ compartments' = compartments
               /\ log' = log
          ELSE LET first == CHOOSE i \in at : \A j \in at : i <= j IN
               /\ response'.status = 200
               /\ Len(compartments') = Len(compartments)
               /\ compartments'[first].taken = TRUE
               /\ \A k \in (DOMAIN compartments[first]) \ {"taken"} :
                     compartments'[first][k] = compartments[first][k]
               /\ \A j \in (1..Len(compartments)) \ {first} :
                     compartments'[j] = compartments[j]
               /\ log' = log ]_vars

\* MarkTaken has acted on a compartment that holds two records: the first is
\* marked, the second is not.
C12_Witness ==
    /\ call.op = "mark_medicine_taken"
    /\ Succeeded
    /\ \E i, j \in 1..Len(compartments) :
          /\ i < j
          /\ compartments[i].compartment_number = call.n
          /\ compartments[j].compartment_number = call.n
          /\ compartments[i].taken
          /\ ~compartments[j].taken

----------------------------------------------------------------------------
(* C13 *)

\* Both requests have ended, and both applied their event to one record.
BothApplied ==
    /\ \A w \in Workers : sessions[w].pc = "done" /\ sessions[w].comp # <<>>
    /\ \A v, w \in Workers : sessions[v].comp[1].id = sessions[w].comp[1].id

\* C13: no update is lost when requests interleave: if two webhook
\* reconciliations, each applying a value-"1" event to the same compartment
\* record with count c >= 2, run concurrently (their read and write steps
\* interleaved in any order), the final number_of_medicines is c - 2 and two
\* log entries are appended, the same as running them one after the other.
C13_NoLostUpdate ==
    BothApplied =>
        LET id == sessions[1].comp[1].id
            c == before[RowOf(before, id)].number_of_medicines
        IN  c >= 2 =>
               /\ compartments[RowOf(compartments, id)].number_of_medicines = c - 2
               /\ Len(log) = 2

====
